---- MODULE Spec2Model ----
(***************************************************************************)
(* PhysiPro: the authentication/session state machine (useAuth and its     *)
(* reducer), the session store (auth-service over AsyncStorage) and the    *)
(* role-based route guard (useProtectedRoute).                             *)
(*                                                                         *)
(* JavaScript strings are TLA+ strings.  The JavaScript value null is      *)
(* Null where a string is expected and NullUser where a User is expected.  *)
(***************************************************************************)
EXTENDS Integers, Sequences, FiniteSets, Bags, TLC

(***************************************************************************)
(* Bounds of the model.                                                    *)
(***************************************************************************)
\* number of login/logout calls that may be in flight at the same time
MaxInFlight == 2
\* longest path, in segments, the router is navigated to
MaxPathLen == 2

(***************************************************************************)
(* Values.                                                                 *)
(***************************************************************************)
Null == "<null>"
NullUser == [null |-> TRUE]

\* enum UserType
UserType == {"trainer", "student", "admin"}
\* interface User (the fields the core reads)
User == [id : {"1"}, userType : UserType]

AUTH_TOKEN_KEY == "@PhysiPro:authToken"
USER_DATA_KEY == "@PhysiPro:userData"
StorageKeys == {AUTH_TOKEN_KEY, USER_DATA_KEY}

\* the credentials the mock login accepts, and its response
MockCpf == "123.456.789-10"
MockPassword == "password123"
MockToken == "mock-jwt-token-would-be-here"
MockUser == [id |-> "1", userType |-> "trainer"]
MockResponse == [user |-> MockUser, token |-> MockToken]
InvalidCredentialsMessage == "CPF ou senha invalidos."

\* inputs of login()
LoginCredentials ==
  {[cpf |-> MockCpf, password |-> MockPassword],
   [cpf |-> MockCpf, password |-> "senha-errada"],
   [cpf |-> "529.982.247-25", password |-> MockPassword]}

\* a token left in the store by an earlier run of the app
StaleToken == "stale-jwt-token"

(***************************************************************************)
(* JSON, as far as the user record needs it.  A serialized user is a       *)
(* string; parsing inverts serialization, accepts the literal null and     *)
(* throws (ParseError) on anything else.                                   *)
(***************************************************************************)
JSONstringify(u) == "{\"id\":\"" \o u.id \o "\",\"userType\":\"" \o u.userType \o "\"}"

MalformedJson == "{\"id\":"
NullJson == "null"
ParseError == [parseError |-> TRUE]

JSONparse(s) ==
  IF \E u \in User : JSONstringify(u) = s
    THEN CHOOSE u \in User : JSONstringify(u) = s
    ELSE IF s = NullJson THEN NullUser ELSE ParseError

\* the values the user key can hold when the app starts
StoredUserStrings == {JSONstringify(u) : u \in User} \cup {MalformedJson}

\* JavaScript truthiness of a string|null and of a User|null
TruthyString(s) == s # Null /\ s # ""
TruthyUser(u) == u # NullUser

(***************************************************************************)
(* AuthState and the reducer.                                              *)
(***************************************************************************)
initialState ==
  [user |-> NullUser, token |-> Null, isLoading |-> TRUE, error |-> Null,
   isAuthenticated |-> FALSE]

\* the reducer with a LOGIN_FAILURE case that forgets isAuthenticated: false
authReducer_FailureKeepsAuthenticated(s, action) ==
  CASE action.type = "LOGIN_REQUEST" ->
         [s EXCEPT !.isLoading = TRUE, !.error = Null]
    [] action.type = "LOGIN_SUCCESS" ->
         [s EXCEPT !.isLoading = FALSE, !.isAuthenticated = TRUE,
                   !.user = action.payload.user, !.token = action.payload.token,
                   !.error = Null]
    [] action.type = "LOGIN_FAILURE" ->
         [s EXCEPT !.isLoading = FALSE, !.error = action.payload]
    [] action.type = "LOGOUT" ->
         [initialState EXCEPT !.isLoading = FALSE]
    [] OTHER -> s

\* the reducer with a LOGIN_FAILURE case that forgets isLoading: false
authReducer_FailureKeepsLoading(s, action) ==
  CASE action.type = "LOGIN_REQUEST" ->
         [s EXCEPT !.isLoading = TRUE, !.error = Null]
    [] action.type = "LOGIN_SUCCESS" ->
         [s EXCEPT !.isLoading = FALSE, !.isAuthenticated = TRUE,
                   !.user = action.payload.user, !.token = action.payload.token,
                   !.error = Null]
    [] action.type = "LOGIN_FAILURE" ->
         [s EXCEPT !.isAuthenticated = FALSE, !.error = action.payload]
    [] action.type = "LOGOUT" ->
         [initialState EXCEPT !.isLoading = FALSE]
    [] OTHER -> s

\* the reducer with a LOGOUT case that spreads state instead of initialState
authReducer_LogoutKeepsSession(s, action) ==
  CASE action.type = "LOGIN_REQUEST" ->
         [s EXCEPT !.isLoading = TRUE, !.error = Null]
    [] action.type = "LOGIN_SUCCESS" ->
         [s EXCEPT !.isLoading = FALSE, !.isAuthenticated = TRUE,
                   !.user = action.payload.user, !.token = action.payload.token,
                   !.error = Null]
    [] action.type = "LOGIN_FAILURE" ->
         [s EXCEPT !.isLoading = FALSE, !.isAuthenticated = FALSE,
                   !.error = action.payload]
    [] action.type = "LOGOUT" ->
         [s EXCEPT !.isLoading = FALSE, !.isAuthenticated = FALSE, !.error = Null]
    [] OTHER -> s
\* the reducer with a LOGIN_SUCCESS case that forgets isLoading: false
authReducer_SuccessKeepsLoading(s, action) ==
  CASE action.type = "LOGIN_REQUEST" ->
         [s EXCEPT !.isLoading = TRUE, !.error = Null]
    [] action.type = "LOGIN_SUCCESS" ->
         [s EXCEPT !.isAuthenticated = TRUE,
                   !.user = action.payload.user, !.token = action.payload.token,
                   !.error = Null]
    [] action.type = "LOGIN_FAILURE" ->
         [s EXCEPT !.isLoading = FALSE, !.isAuthenticated = FALSE,
                   !.error = action.payload]
    [] action.type = "LOGOUT" ->
         [initialState EXCEPT !.isLoading = FALSE]
    [] OTHER -> s

\* the reducer with a LOGIN_REQUEST case that forgets error: null
authReducer_RequestKeepsError(s, action) ==
  CASE action.type = "LOGIN_REQUEST" ->
         [s EXCEPT !.isLoading = TRUE]
    [] action.type = "LOGIN_SUCCESS" ->
         [s EXCEPT !.isLoading = FALSE, !.isAuthenticated = TRUE,
                   !.user = action.payload.user, !.token = action.payload.token,
                   !.error = Null]
    [] action.type = "LOGIN_FAILURE" ->
         [s EXCEPT !.isLoading = FALSE, !.isAuthenticated = FALSE,
                   !.error = action.payload]
    [] action.type = "LOGOUT" ->
         [initialState EXCEPT !.isLoading = FALSE]
    [] OTHER -> s

authReducer(s, action) ==
  CASE action.type = "LOGIN_REQUEST" ->
         [s EXCEPT !.isLoading = TRUE, !.error = Null]
    [] action.type = "LOGIN_SUCCESS" ->
         [s EXCEPT !.isLoading = FALSE, !.isAuthenticated = TRUE,
                   !.user = action.payload.user, !.token = action.payload.token,
                   !.error = Null]
    [] action.type = "LOGIN_FAILURE" ->
         [s EXCEPT !.isLoading = FALSE, !.isAuthenticated = FALSE,
                   !.error = action.payload]
    [] action.type = "LOGOUT" ->
         [initialState EXCEPT !.isLoading = FALSE]
    [] OTHER -> s

(***************************************************************************)
(* The key-value store.  store maps every key to its value, Null when the  *)
(* key is absent.  Every AsyncStorage operation either takes effect as a   *)
(* whole or throws and leaves the store as it was; safeStorage catches.    *)
(***************************************************************************)
StorageOutcomes == {"ok", "throws"}

\* safeStorage.getItem: the value, or null when AsyncStorage throws
safeGetItem(st, key, outcome) == IF outcome = "ok" THEN st[key] ELSE Null

\* safeStorage.multiSet: the store afterwards, and the boolean returned
multiSetStore(st, pairs, outcome) ==
  IF outcome = "ok"
    THEN [k \in StorageKeys |-> IF k \in DOMAIN pairs THEN pairs[k] ELSE st[k]]
    ELSE st
safeMultiSet(outcome) == outcome = "ok"

\* safeStorage.multiRemove: the store afterwards, and the boolean returned
multiRemoveStore(st, keys, outcome) ==
  IF outcome = "ok"
    THEN [k \in StorageKeys |-> IF k \in keys THEN Null ELSE st[k]]
    ELSE st
safeMultiRemove(outcome) == outcome = "ok"
\* saveAuthData writing the token alone
saveAuthDataPairs_TokenOnly(data) == (AUTH_TOKEN_KEY :> data.token)

\* saveAuthData: the pairs handed to multiSet
saveAuthDataPairs(data) ==
  (AUTH_TOKEN_KEY :> data.token) @@ (USER_DATA_KEY :> JSONstringify(data.user))
\* getSavedUser with JSON.parse outside any try
getSavedUser_NoCatch(st, outcome) ==
  LET userData == safeGetItem(st, USER_DATA_KEY, outcome) IN
    IF ~TruthyString(userData) THEN NullUser ELSE JSONparse(userData)

\* getSavedUser
getSavedUser(st, outcome) ==
  LET userData == safeGetItem(st, USER_DATA_KEY, outcome) IN
    IF ~TruthyString(userData) THEN NullUser
    ELSE IF JSONparse(userData) = ParseError THEN NullUser
    ELSE JSONparse(userData)

\* getSavedToken
getSavedToken(st, outcome) == safeGetItem(st, AUTH_TOKEN_KEY, outcome)

\* isUserLoggedIn
isUserLoggedIn(st, outcome) == TruthyString(getSavedToken(st, outcome))

\* clearAuthData removing the token alone
clearAuthDataKeys_TokenOnly == {AUTH_TOKEN_KEY}

\* clearAuthData: the keys handed to multiRemove
clearAuthDataKeys == {AUTH_TOKEN_KEY, USER_DATA_KEY}

\* checkAuthStatus testing the user alone
sessionRestored_UserOnly(user, token) == TruthyUser(user)
\* checkAuthStatus testing the token alone
sessionRestored_TokenOnly(user, token) == TruthyString(token)

\* checkAuthStatus: if (user && token)
sessionRestored(user, token) == TruthyUser(user) /\ TruthyString(token)

\* the credential check of the mock login
credentialsAccepted(credentials) ==
  credentials.cpf = MockCpf /\ credentials.password = MockPassword

(***************************************************************************)
(* The route guard.  The router's position is the sequence of its path     *)
(* segments; pathname and router.replace convert between it and a string.  *)
(***************************************************************************)

PUBLIC_ROUTES == {"login", "register", "forgot-password"}
HEADER_HIDDEN_ROUTES == {"login", "register", "forgot-password"}
\* the role routes with the homes of trainer and student exchanged
ROLE_ROUTES_Exchanged ==
  [r \in UserType |-> IF r = "trainer" THEN "student"
                      ELSE IF r = "student" THEN "trainer" ELSE r]

ROLE_ROUTES == [r \in UserType |-> r]

\* first segments the model navigates to: public, role and one other screen
FirstSegments == PUBLIC_ROUTES \cup {ROLE_ROUTES[r] : r \in UserType} \cup {"home"}
\* segments below the first one
SubSegments == {"sessions"}

Paths ==
  {p \in UNION {[1..n -> FirstSegments \cup SubSegments] : n \in 0..MaxPathLen} :
     \A i \in DOMAIN p : IF i = 1 THEN p[i] \in FirstSegments ELSE p[i] \in SubSegments}

RECURSIVE JoinSegments(_)
JoinSegments(p) ==
  IF Len(p) = 0 THEN ""
  ELSE IF Len(p) = 1 THEN p[1]
  ELSE p[1] \o "/" \o JoinSegments(Tail(p))

\* usePathname()
Pathname(p) == "/" \o JoinSegments(p)
\* pathname.substring(1)
CurrentRoute(p) == JoinSegments(p)
\* segments[0] || ''
CurrentModule(p) == IF Len(p) = 0 THEN "" ELSE p[1]
\* the position router.replace(href) leaves the router at
RouterReplace(href) == CHOOSE p \in Paths : Pathname(p) = href

NoRedirect == "<none>"

\* the guard comparing the whole route, not its first segment, with the role's
GuardRedirect_RouteNotModule(p, s, initialized) ==
  LET inPublicRoute == CurrentRoute(p) \in PUBLIC_ROUTES
      inProtectedRoute == ~inPublicRoute
  IN
  IF ~initialized THEN NoRedirect
  ELSE IF inProtectedRoute /\ ~s.isAuthenticated THEN "/login"
  ELSE IF inPublicRoute /\ s.isAuthenticated /\ TruthyUser(s.user)
    THEN "/" \o ROLE_ROUTES[s.user.userType]
  ELSE IF /\ s.isAuthenticated /\ TruthyUser(s.user)
          /\ CurrentRoute(p) # ""
          /\ CurrentRoute(p) # ROLE_ROUTES[s.user.userType]
    THEN IF CurrentRoute(p) \in {ROLE_ROUTES[r] : r \in UserType}
           THEN "/" \o ROLE_ROUTES[s.user.userType]
           ELSE NoRedirect
  ELSE NoRedirect

\* the guard taking a route for public by its first segment
GuardRedirect_PublicByModule(p, s, initialized) ==
  LET inPublicRoute == CurrentModule(p) \in PUBLIC_ROUTES
      inProtectedRoute == ~inPublicRoute
  IN
  IF ~initialized THEN NoRedirect
  ELSE IF inProtectedRoute /\ ~s.isAuthenticated THEN "/login"
  ELSE IF inPublicRoute /\ s.isAuthenticated /\ TruthyUser(s.user)
    THEN "/" \o ROLE_ROUTES[s.user.userType]
  ELSE IF /\ s.isAuthenticated /\ TruthyUser(s.user)
          /\ CurrentModule(p) # ""
          /\ CurrentModule(p) # ROLE_ROUTES[s.user.userType]
    THEN IF CurrentModule(p) \in {ROLE_ROUTES[r] : r \in UserType}
           THEN "/" \o ROLE_ROUTES[s.user.userType]
           ELSE NoRedirect
  ELSE NoRedirect

\* the guard sending every first segment other than the role's own to it
GuardRedirect_DefaultDeny(p, s, initialized) ==
  LET inPublicRoute == CurrentRoute(p) \in PUBLIC_ROUTES
      inProtectedRoute == ~inPublicRoute
  IN
  IF ~initialized THEN NoRedirect
  ELSE IF inProtectedRoute /\ ~s.isAuthenticated THEN "/login"
  ELSE IF inPublicRoute /\ s.isAuthenticated /\ TruthyUser(s.user)
    THEN "/" \o ROLE_ROUTES[s.user.userType]
  ELSE IF /\ s.isAuthenticated /\ TruthyUser(s.user)
          /\ CurrentModule(p) # ""
          /\ CurrentModule(p) # ROLE_ROUTES[s.user.userType]
    THEN "/" \o ROLE_ROUTES[s.user.userType]
  ELSE NoRedirect
\* a mutant: the guard taking the login screen for a protected route
GuardRedirect_LoginProtected(p, s, initialized) ==
  LET inPublicRoute == CurrentRoute(p) \in PUBLIC_ROUTES \ {"login"}
      inProtectedRoute == ~inPublicRoute
  IN
  IF ~initialized THEN NoRedirect
  ELSE IF inProtectedRoute /\ ~s.isAuthenticated THEN "/login"
  ELSE IF inPublicRoute /\ s.isAuthenticated /\ TruthyUser(s.user)
    THEN "/" \o ROLE_ROUTES[s.user.userType]
  ELSE IF /\ s.isAuthenticated /\ TruthyUser(s.user)
          /\ CurrentModule(p) # ""
          /\ CurrentModule(p) # ROLE_ROUTES[s.user.userType]
    THEN IF CurrentModule(p) \in {ROLE_ROUTES[r] : r \in UserType}
           THEN "/" \o ROLE_ROUTES[s.user.userType]
           ELSE NoRedirect
  ELSE NoRedirect

\* a mutant: the effect without its first line, if (!isInitialized) return
GuardRedirect_BeforeInitialized(p, s, initialized) ==
  LET inPublicRoute == CurrentRoute(p) \in PUBLIC_ROUTES
      inProtectedRoute == ~inPublicRoute
  IN
  IF inProtectedRoute /\ ~s.isAuthenticated THEN "/login"
  ELSE IF inPublicRoute /\ s.isAuthenticated /\ TruthyUser(s.user)
    THEN "/" \o ROLE_ROUTES[s.user.userType]
  ELSE IF /\ s.isAuthenticated /\ TruthyUser(s.user)
          /\ CurrentModule(p) # ""
          /\ CurrentModule(p) # ROLE_ROUTES[s.user.userType]
    THEN IF CurrentModule(p) \in {ROLE_ROUTES[r] : r \in UserType}
           THEN "/" \o ROLE_ROUTES[s.user.userType]
           ELSE NoRedirect
  ELSE NoRedirect

\* the body of the guard's effect: the href it replaces the route with
GuardRedirect(p, s, initialized) ==
  LET inPublicRoute == CurrentRoute(p) \in PUBLIC_ROUTES
      inProtectedRoute == ~inPublicRoute
  IN
  IF ~initialized THEN NoRedirect
  ELSE IF inProtectedRoute /\ ~s.isAuthenticated THEN "/login"
  ELSE IF inPublicRoute /\ s.isAuthenticated /\ TruthyUser(s.user)
    THEN "/" \o ROLE_ROUTES[s.user.userType]
  ELSE IF /\ s.isAuthenticated /\ TruthyUser(s.user)
          /\ CurrentModule(p) # ""
          /\ CurrentModule(p) # ROLE_ROUTES[s.user.userType]
    THEN IF CurrentModule(p) \in {ROLE_ROUTES[r] : r \in UserType}
           THEN "/" \o ROLE_ROUTES[s.user.userType]
           ELSE NoRedirect
  ELSE NoRedirect

\* what useProtectedRoute returns: shouldHideHeader
shouldHideHeader(p) == CurrentRoute(p) \in HEADER_HIDDEN_ROUTES

\* isLoading computed with && in place of ||
guardIsLoading_And(s, initialized) == s.isLoading /\ ~initialized

\* what useProtectedRoute returns: isLoading
guardIsLoading(s, initialized) == s.isLoading \/ ~initialized

(***************************************************************************)
(* State.                                                                  *)
(***************************************************************************)
VARIABLES
  state,          \* the AuthState held by useReducer
  isInitialized,  \* useState(false) of useAuth
  store,          \* AsyncStorage: key -> string, Null when absent
  init,           \* checkAuthStatus: its position and its locals
  calls,          \* the login and logout calls in flight
  segments,       \* the router's position
  effectPending,  \* a dependency of the guard's effect changed since it ran
  lastAction,     \* history: the reducer action applied last, and by whom
  lastSettled,    \* history: the last reducer action other than LOGIN_REQUEST
  lastResult,     \* history: how the operation that finished last ended
  lastGuard,      \* history: the redirect of the guard's last run, and from where
  cpfText,        \* the string handed to the CPF functions, as a sequence of characters
  cpfOp,          \* which of the CPF functions was applied last
  cpfValid,       \* what isCpfValid returned
  cpfFormatted,   \* what formatCpf returned
  form            \* LoginScreen: cpf, password, isCpfValid; CpfInput: isTouched

vars == <<state, isInitialized, store, init, calls, segments, effectPending,
          lastAction, lastSettled, lastResult, lastGuard,
          cpfText, cpfOp, cpfValid, cpfFormatted, form>>

cpfVars == <<cpfText, cpfOp, cpfValid, cpfFormatted>>

\* useState('') of cpf and password, useState(false) of isCpfValid and
\* isTouched
EmptyForm == [cpf |-> << >>, password |-> << >>, isCpfValid |-> FALSE, isTouched |-> FALSE]

\* no CPF function has been applied
CpfIdle ==
  /\ cpfText = << >>
  /\ cpfOp = "none"
  /\ cpfValid = FALSE
  /\ cpfFormatted = << >>

NoCredentials == [cpf |-> "", password |-> ""]
NoResult == [kind |-> "none", outcome |-> "-", success |-> FALSE, error |-> Null, found |-> "-"]
Pending == "<pending>"
PendingUser == [pending |-> TRUE]

\* history: what a store holds, as the operations of the session store see it
Found(st) ==
  IF st[AUTH_TOKEN_KEY] = Null
    THEN IF st[USER_DATA_KEY] = Null THEN "nothing" ELSE "user-only"
    ELSE IF st[USER_DATA_KEY] = Null \/ JSONparse(st[USER_DATA_KEY]) \in {ParseError, NullUser}
           THEN "token-only"
           ELSE "session"

\* checkAuthStatus has returned: its locals are gone
InitDone == [pc |-> "done", user |-> PendingUser, token |-> Pending,
             found |-> "-", failed |-> FALSE]
\* history: how checkAuthStatus ended
InitResult(failed) ==
  [kind |-> "init", outcome |-> "resolved", success |-> ~failed, error |-> Null,
   found |-> init.found]

\* the stores the app can find when it starts
InitialStores ==
  {(AUTH_TOKEN_KEY :> t) @@ (USER_DATA_KEY :> u) :
     t \in {StaleToken, Null}, u \in StoredUserStrings \cup {Null}}

Init ==
  /\ state = initialState
  /\ isInitialized = FALSE
  /\ store \in InitialStores
  /\ init = [pc |-> "check", user |-> PendingUser, token |-> Pending,
             found |-> Found(store), failed |-> FALSE]
  /\ calls = EmptyBag
  /\ segments = << >>
  /\ effectPending = TRUE
  /\ lastAction = [type |-> "NONE", by |-> "none"]
  /\ lastSettled = "NONE"
  /\ lastResult = NoResult
  /\ lastGuard = [from |-> << >>, href |-> "<not-run>"]
  /\ CpfIdle
  /\ form = EmptyForm

\* an effect with an empty dependency list: it runs at mount only
EffectDepsChanged_MountOnly(s, t, type, initialized, initialized2) == FALSE

\* the dependency list of the guard's effect, as far as a reducer action or
\* setIsInitialized can change it: isAuthenticated, isInitialized and user
\* (LOGIN_SUCCESS stores a user object that was not there before)
EffectDepsChanged(s, t, type, initialized, initialized2) ==
  \/ t.isAuthenticated # s.isAuthenticated
  \/ t.user # s.user
  \/ type = "LOGIN_SUCCESS"
  \/ initialized2 # initialized

\* dispatch(action) by `by`: the reducer step and what it means to the guard,
\* whose effect depends on isAuthenticated and on the identity of user
Dispatch(action, by) ==
  /\ state' = authReducer(state, action)
  /\ lastAction' = [type |-> action.type, by |-> by]
  /\ lastSettled' = IF action.type = "LOGIN_REQUEST" THEN lastSettled ELSE action.type
  /\ effectPending' =
       (effectPending \/ EffectDepsChanged(state, state', action.type,
                                           isInitialized, isInitialized'))

(***************************************************************************)
(* checkAuthStatus, the effect useAuth runs once when the app starts.      *)
(***************************************************************************)
\* await isUserLoggedIn(), and the else branch that follows it
InitCheck ==
  /\ ~effectPending
  /\ init.pc = "check"
  /\ \E outcome \in StorageOutcomes :
       LET isLoggedIn == isUserLoggedIn(store, outcome) IN
       IF isLoggedIn
         THEN /\ init' = [init EXCEPT !.pc = "reading"]
              /\ UNCHANGED <<state, isInitialized, effectPending, lastAction,
                             lastSettled, lastResult>>
         ELSE /\ init' = InitDone
              /\ lastResult' = InitResult(outcome = "throws")
              /\ isInitialized' = TRUE
              /\ Dispatch([type |-> "LOGOUT"], "init")
  /\ UNCHANGED <<store, calls, segments, lastGuard>>
  /\ UNCHANGED <<cpfVars, form>>

\* Promise.all: getSavedUser() completes
InitReadUser ==
  /\ ~effectPending
  /\ init.pc = "reading"
  /\ init.user = PendingUser
  /\ \E outcome \in StorageOutcomes :
       init' = [init EXCEPT !.user = getSavedUser(store, outcome),
                            !.failed = @ \/ outcome = "throws"]
  /\ UNCHANGED <<state, isInitialized, store, calls, segments, effectPending,
                 lastAction, lastSettled, lastResult, lastGuard>>
  /\ UNCHANGED <<cpfVars, form>>

\* Promise.all: getSavedToken() completes
InitReadToken ==
  /\ ~effectPending
  /\ init.pc = "reading"
  /\ init.token = Pending
  /\ \E outcome \in StorageOutcomes :
       init' = [init EXCEPT !.token = getSavedToken(store, outcome),
                            !.failed = @ \/ outcome = "throws"]
  /\ UNCHANGED <<state, isInitialized, store, calls, segments, effectPending,
                 lastAction, lastSettled, lastResult, lastGuard>>
  /\ UNCHANGED <<cpfVars, form>>

\* both reads are in: if (user && token) dispatch LOGIN_SUCCESS, else clear
InitJoin ==
  /\ ~effectPending
  /\ init.pc = "reading"
  /\ init.user # PendingUser
  /\ init.token # Pending
  /\ IF sessionRestored(init.user, init.token)
       THEN /\ init' = InitDone
            /\ lastResult' = InitResult(init.failed)
            /\ isInitialized' = TRUE
            /\ Dispatch([type |-> "LOGIN_SUCCESS",
                         payload |-> [user |-> init.user, token |-> init.token]], "init")
       ELSE /\ init' = [init EXCEPT !.pc = "clearing"]
            /\ UNCHANGED <<state, isInitialized, effectPending, lastAction,
                           lastSettled, lastResult>>
  /\ UNCHANGED <<store, calls, segments, lastGuard>>
  /\ UNCHANGED <<cpfVars, form>>
\* checkAuthStatus with setIsInitialized(true) at the end of the try block
\* and not in finally, so that a failed clear leaves it out
InitClear_NoFinally ==
  /\ ~effectPending
  /\ init.pc = "clearing"
  /\ \E outcome \in StorageOutcomes :
       /\ store' = multiRemoveStore(store, clearAuthDataKeys, outcome)
       /\ lastResult' = InitResult(init.failed \/ ~safeMultiRemove(outcome))
       /\ isInitialized' = safeMultiRemove(outcome)
  /\ init' = InitDone
  /\ Dispatch([type |-> "LOGOUT"], "init")
  /\ UNCHANGED <<calls, segments, lastGuard>>
  /\ UNCHANGED <<cpfVars, form>>

\* await clearAuthData(), then dispatch LOGOUT
InitClear ==
  /\ ~effectPending
  /\ init.pc = "clearing"
  /\ \E outcome \in StorageOutcomes :
       /\ store' = multiRemoveStore(store, clearAuthDataKeys, outcome)
       /\ lastResult' = InitResult(init.failed \/ ~safeMultiRemove(outcome))
  /\ init' = InitDone
  /\ isInitialized' = TRUE
  /\ Dispatch([type |-> "LOGOUT"], "init")
  /\ UNCHANGED <<calls, segments, lastGuard>>
  /\ UNCHANGED <<cpfVars, form>>

(***************************************************************************)
(* login and logout of useAuth.  The screens that call them are rendered   *)
(* inside AuthGuard, which shows only a spinner until isInitialized.       *)
(* calls is the bag of the calls in flight: what each is waiting for and   *)
(* its locals.  React runs a pending effect before it handles the next     *)
(* event, so nothing else runs while effectPending.                        *)
(***************************************************************************)
Replace(call, next) == (calls (-) SetToBag({call})) (+) SetToBag({next})
Settle(call) == calls (-) SetToBag({call})

\* login(credentials) up to its await: dispatch LOGIN_REQUEST
LoginCall(credentials) ==
  /\ ~effectPending
  /\ isInitialized
  /\ BagCardinality(calls) < MaxInFlight
  /\ calls' = calls (+) SetToBag({[kind |-> "login", pc |-> "delay",
                                   credentials |-> credentials, success |-> FALSE]})
  /\ isInitialized' = isInitialized
  /\ Dispatch([type |-> "LOGIN_REQUEST"], "login")
  /\ UNCHANGED <<store, init, segments, lastResult, lastGuard>>
  /\ UNCHANGED <<cpfVars, form>>

\* AuthService.login: the delay is over, the credentials are the accepted
\* ones and saveAuthData's multiSet completes
LoginSave(call) ==
  /\ ~effectPending
  /\ call.kind = "login"
  /\ call.pc = "delay"
  /\ credentialsAccepted(call.credentials)
  /\ \E outcome \in StorageOutcomes :
       /\ store' = multiSetStore(store, saveAuthDataPairs(MockResponse), outcome)
       /\ calls' = Replace(call, [call EXCEPT !.pc = "saved",
                                              !.success = safeMultiSet(outcome)])
  /\ UNCHANGED <<state, isInitialized, init, segments, effectPending,
                 lastAction, lastSettled, lastResult, lastGuard>>
  /\ UNCHANGED <<cpfVars, form>>

\* AuthService.login returned the response: dispatch LOGIN_SUCCESS, resolve
LoginSuccess(call) ==
  /\ ~effectPending
  /\ call.kind = "login"
  /\ call.pc = "saved"
  /\ calls' = Settle(call)
  /\ lastResult' = [kind |-> "login", outcome |-> "resolved",
                    success |-> call.success, error |-> Null, found |-> "-"]
  /\ isInitialized' = isInitialized
  /\ Dispatch([type |-> "LOGIN_SUCCESS", payload |-> MockResponse], "login")
  /\ UNCHANGED <<store, init, segments, lastGuard>>
  /\ UNCHANGED <<cpfVars, form>>
\* a mutant: a rejected login clears the persisted session
LoginFailure_ClearsStore(call) ==
  /\ ~effectPending
  /\ call.kind = "login"
  /\ call.pc = "delay"
  /\ ~credentialsAccepted(call.credentials)
  /\ calls' = Settle(call)
  /\ lastResult' = [kind |-> "login", outcome |-> "rejected",
                    success |-> FALSE, error |-> InvalidCredentialsMessage, found |-> "-"]
  /\ isInitialized' = isInitialized
  /\ Dispatch([type |-> "LOGIN_FAILURE", payload |-> InvalidCredentialsMessage], "login")
  /\ store' = multiRemoveStore(store, clearAuthDataKeys, "ok")
  /\ UNCHANGED <<init, segments, lastGuard>>
  /\ UNCHANGED <<cpfVars, form>>

\* a mutant: a rejection that arrives when no request is pending is dropped
LoginFailure_StaleDropped(call) ==
  /\ ~effectPending
  /\ call.kind = "login"
  /\ call.pc = "delay"
  /\ ~credentialsAccepted(call.credentials)
  /\ calls' = Settle(call)
  /\ lastResult' = [kind |-> "login", outcome |-> "rejected",
                    success |-> FALSE, error |-> InvalidCredentialsMessage, found |-> "-"]
  /\ isInitialized' = isInitialized
  /\ IF state.isLoading
       THEN Dispatch([type |-> "LOGIN_FAILURE", payload |-> InvalidCredentialsMessage], "login")
       ELSE UNCHANGED <<state, lastAction, lastSettled, effectPending>>
  /\ UNCHANGED <<store, init, segments, lastGuard>>
  /\ UNCHANGED <<cpfVars, form>>

\* AuthService.login threw: dispatch LOGIN_FAILURE with the message, rethrow
LoginFailure(call) ==
  /\ ~effectPending
  /\ call.kind = "login"
  /\ call.pc = "delay"
  /\ ~credentialsAccepted(call.credentials)
  /\ calls' = Settle(call)
  /\ lastResult' = [kind |-> "login", outcome |-> "rejected",
                    success |-> FALSE, error |-> InvalidCredentialsMessage, found |-> "-"]
  /\ isInitialized' = isInitialized
  /\ Dispatch([type |-> "LOGIN_FAILURE", payload |-> InvalidCredentialsMessage], "login")
  /\ UNCHANGED <<store, init, segments, lastGuard>>
  /\ UNCHANGED <<cpfVars, form>>

\* logout() up to its await: AuthService.logout() is called, nothing dispatched
LogoutCall ==
  /\ ~effectPending
  /\ isInitialized
  /\ BagCardinality(calls) < MaxInFlight
  /\ calls' = calls (+) SetToBag({[kind |-> "logout", pc |-> "clearing",
                                   credentials |-> NoCredentials, success |-> FALSE]})
  /\ UNCHANGED <<state, isInitialized, store, init, segments, effectPending,
                 lastAction, lastSettled, lastResult, lastGuard>>
  /\ UNCHANGED <<cpfVars, form>>

\* AuthService.logout: clearAuthData's multiRemove completes
LogoutClear(call) ==
  /\ ~effectPending
  /\ call.kind = "logout"
  /\ call.pc = "clearing"
  /\ \E outcome \in StorageOutcomes :
       /\ store' = multiRemoveStore(store, clearAuthDataKeys, outcome)
       /\ calls' = Replace(call, [call EXCEPT !.pc = "cleared",
                                              !.success = safeMultiRemove(outcome)])
  /\ UNCHANGED <<state, isInitialized, init, segments, effectPending,
                 lastAction, lastSettled, lastResult, lastGuard>>
  /\ UNCHANGED <<cpfVars, form>>

\* AuthService.logout returned success or not: dispatch LOGOUT either way
LogoutDone(call) ==
  /\ ~effectPending
  /\ call.kind = "logout"
  /\ call.pc = "cleared"
  /\ calls' = Settle(call)
  /\ lastResult' = [kind |-> "logout", outcome |-> "resolved",
                    success |-> call.success, error |-> Null, found |-> "-"]
  /\ isInitialized' = isInitialized
  /\ Dispatch([type |-> "LOGOUT"], "logout")
  /\ UNCHANGED <<store, init, segments, lastGuard>>
  /\ UNCHANGED <<cpfVars, form>>

(***************************************************************************)
(* The router and the guard's effect.                                      *)
(***************************************************************************)
\* the user (or a deep link) moves the router to another path
Navigate(p) ==
  /\ ~effectPending
  /\ p # segments
  /\ segments' = p
  /\ effectPending' = TRUE
  /\ UNCHANGED <<state, isInitialized, store, init, calls,
                 lastAction, lastSettled, lastResult, lastGuard>>
  /\ UNCHANGED <<cpfVars, form>>

\* the effect of useProtectedRoute runs after a render that changed one of
\* its dependencies
GuardEffect ==
  /\ effectPending
  /\ LET href == GuardRedirect(segments, state, isInitialized) IN
       /\ segments' = IF href = NoRedirect THEN segments ELSE RouterReplace(href)
       /\ lastGuard' = [from |-> IF href = NoRedirect THEN << >> ELSE segments,
                         href |-> href]
       /\ effectPending' = (segments' # segments)
  /\ UNCHANGED <<state, isInitialized, store, init, calls,
                 lastAction, lastSettled, lastResult>>
  /\ UNCHANGED <<cpfVars, form>>

Next ==
  \/ InitCheck
  \/ InitReadUser
  \/ InitReadToken
  \/ InitJoin
  \/ InitClear
  \/ \E credentials \in LoginCredentials : LoginCall(credentials)
  \/ \E call \in BagToSet(calls) : LoginSave(call)
  \/ \E call \in BagToSet(calls) : LoginSuccess(call)
  \/ \E call \in BagToSet(calls) : LoginFailure(call)
  \/ LogoutCall
  \/ \E call \in BagToSet(calls) : LogoutClear(call)
  \/ \E call \in BagToSet(calls) : LogoutDone(call)
  \/ \E p \in Paths : Navigate(p)
  \/ GuardEffect

Spec == Init /\ [][Next]_vars

TypeOK ==
  /\ state.isLoading \in BOOLEAN
  /\ isInitialized \in BOOLEAN
  /\ segments \in Paths

(***************************************************************************)
(* Shorthands of the properties.                                           *)
(***************************************************************************)
LoggedOut ==
  /\ state.user = NullUser
  /\ state.token = Null
  /\ state.error = Null
  /\ ~state.isAuthenticated
  /\ ~state.isLoading

EmptyStore == store[AUTH_TOKEN_KEY] = Null /\ store[USER_DATA_KEY] = Null

\* checkAuthStatus has finished and nothing was called since
JustInitialized == lastResult.kind = "init" /\ calls = EmptyBag

\* the last reducer action was dispatched by a login or logout call
DispatchedBy(type, by) == lastAction = [type |-> type, by |-> by]

(***************************************************************************)
(* The AuthState invariant.                                                *)
(***************************************************************************)
\* C1 as stated: isAuthenticated is true if and only if user and token are
\* both non-null and the reducer action applied last was LOGIN_SUCCESS.
C1_AuthenticatedIffLastActionSuccess ==
  state.isAuthenticated <=>
    (/\ state.user # NullUser
     /\ state.token # Null
     /\ lastAction.type = "LOGIN_SUCCESS")

\* C1 amended: isAuthenticated is true if and only if user and token are both
\* non-null and the last reducer action other than LOGIN_REQUEST was
\* LOGIN_SUCCESS (LOGIN_REQUEST leaves isAuthenticated as it was).
C1_AuthenticatedIffLastSettledSuccess ==
  state.isAuthenticated <=>
    (/\ state.user # NullUser
     /\ state.token # Null
     /\ lastSettled = "LOGIN_SUCCESS")

\* a login was requested while authenticated: isAuthenticated stays true
C1_Witness ==
  /\ state.isAuthenticated
  /\ lastAction.type = "LOGIN_REQUEST"
  /\ lastSettled = "LOGIN_SUCCESS"

(***************************************************************************)
(* login persists the session.                                             *)
(***************************************************************************)
\* C2: whenever a login call has resolved and its LOGIN_SUCCESS made the
\* state Authenticated, the store holds the token and the user of the
\* response, whatever the outcome of the multi-key write was.
C2_LoginPersistsBeforeAuthenticated ==
  (/\ DispatchedBy("LOGIN_SUCCESS", "login")
   /\ lastResult.kind = "login"
   /\ lastResult.outcome = "resolved"
   /\ calls = EmptyBag)
  => /\ state.isAuthenticated
     /\ store[AUTH_TOKEN_KEY] = state.token
     /\ store[USER_DATA_KEY] # Null
     /\ JSONparse(store[USER_DATA_KEY]) = state.user

(***************************************************************************)
(* initialize (checkAuthStatus).                                           *)
(***************************************************************************)
\* C3: when initialize found a user record but no token, it ends in
\* LoggedOut and the store ends with both keys absent.
C3_UserOnlySessionCleared ==
  (JustInitialized /\ lastResult.found = "user-only")
  => (LoggedOut /\ EmptyStore)

C5_InitializeAuthenticatesOnlyFromStoredSession ==
  JustInitialized =>
    /\ state.isAuthenticated <=> (lastResult.found = "session" /\ lastResult.success)
    /\ state.isAuthenticated =>
         /\ state.token = store[AUTH_TOKEN_KEY]
         /\ state.user = JSONparse(store[USER_DATA_KEY])
         /\ JSONstringify(state.user) = store[USER_DATA_KEY]
    /\ ~lastResult.success => ~state.isAuthenticated

\* initialize restored the stored session of an admin
C5_Witness ==
  /\ JustInitialized
  /\ state.isAuthenticated
  /\ state.token = StaleToken
  /\ state.user.userType = "admin"
  /\ DispatchedBy("LOGIN_SUCCESS", "init")

(***************************************************************************)
(* logout and the rejected login.                                          *)
(***************************************************************************)
\* C6: when a logout call has dispatched its LOGOUT, AuthState is LoggedOut
\* (user, token and error null, isAuthenticated and isLoading false),
\* whether the store clear succeeded or reported failure.
C6_LogoutAlwaysEndsLoggedOut ==
  (DispatchedBy("LOGOUT", "logout") /\ lastResult.kind = "logout")
  => /\ state.user = NullUser
     /\ state.token = Null
     /\ state.error = Null
     /\ ~state.isAuthenticated
     /\ ~state.isLoading
     /\ lastResult.outcome = "resolved"

\* a logout whose store clear failed has ended: the session is still in the
\* store, the state is logged out
C6_Witness ==
  /\ DispatchedBy("LOGOUT", "logout")
  /\ lastResult.kind = "logout"
  /\ ~lastResult.success
  /\ store[AUTH_TOKEN_KEY] = MockToken
  /\ LoggedOut

\* C7: when the credential check rejected, the login call has left
\* isAuthenticated and isLoading false and error equal to the rejection
\* message, and the call itself rejected with that error.
C7_RejectedLoginEndsLoggedOutWithError ==
  DispatchedBy("LOGIN_FAILURE", "login")
  => /\ ~state.isAuthenticated
     /\ ~state.isLoading
     /\ state.error = InvalidCredentialsMessage
     /\ lastResult.kind = "login"
     /\ lastResult.outcome = "rejected"
     /\ lastResult.error = InvalidCredentialsMessage

\* a login was rejected while a session was authenticated
C7_Witness ==
  /\ DispatchedBy("LOGIN_FAILURE", "login")
  /\ lastResult.outcome = "rejected"
  /\ state.error = InvalidCredentialsMessage
  /\ state.token = MockToken

(***************************************************************************)
(* What the guard exposes and decides.                                     *)
(***************************************************************************)
\* C8 as stated: the guard's isLoading is true exactly when auth is not yet
\* initialized or a login or logout call is in flight.
C8_LoadingIffUninitializedOrCallInFlight ==
  guardIsLoading(state, isInitialized) <=> (~isInitialized \/ calls # EmptyBag)

\* C8 amended: the guard's isLoading is true exactly when auth is not yet
\* initialized or the reducer action applied last is the LOGIN_REQUEST of a
\* login call (a logout in flight does not raise it, and it drops when any
\* login or logout call completes).
C8_LoadingIffUninitializedOrLoginRequested ==
  guardIsLoading(state, isInitialized) <=>
    (~isInitialized \/ lastAction.type = "LOGIN_REQUEST")

\* a logout is in flight and the guard does not report loading
C8_Witness ==
  /\ isInitialized
  /\ \E call \in BagToSet(calls) : call.kind = "logout"
  /\ ~guardIsLoading(state, isInitialized)

InRoleSegments(p) == CurrentModule(p) \in {ROLE_ROUTES[r] : r \in UserType}

\* C9: once initialized, whenever the user is authenticated and the first
\* segment is a role segment other than the one of the user's role, the
\* guard's effect is due and redirects to the user's own role segment.
C9_CrossRoleRedirectsToOwnSegment ==
  (/\ isInitialized
   /\ state.isAuthenticated
   /\ InRoleSegments(segments)
   /\ CurrentModule(segments) # ROLE_ROUTES[state.user.userType])
  => /\ effectPending
     /\ GuardRedirect(segments, state, isInitialized) = "/" \o ROLE_ROUTES[state.user.userType]
     /\ RouterReplace(GuardRedirect(segments, state, isInitialized))
          = <<ROLE_ROUTES[state.user.userType]>>

\* the guard has moved a student from a path under admin to /student
C9_Witness ==
  /\ lastGuard = [from |-> <<"admin", "sessions">>, href |-> "/student"]
  /\ segments = <<"student">>
  /\ state.isAuthenticated
  /\ state.user.userType = "student"

\* C10: once initialized, whenever the path is not a public route and the
\* user is not authenticated, the guard's effect is due and redirects to the
\* login path.
C10_ProtectedPathRedirectsToLogin ==
  (/\ isInitialized
   /\ CurrentRoute(segments) \notin PUBLIC_ROUTES
   /\ ~state.isAuthenticated)
  => /\ effectPending
     /\ GuardRedirect(segments, state, isInitialized) = "/login"
     /\ RouterReplace(GuardRedirect(segments, state, isInitialized)) = <<"login">>

\* the guard has moved an unauthenticated user from /trainer to /login
C10_Witness ==
  /\ lastGuard.href = "/login"
  /\ lastGuard.from = <<"trainer">>
  /\ segments = <<"login">>
  /\ ~state.isAuthenticated

\* the home of each role, as the claims name it
RoleHome == [admin |-> "/admin", trainer |-> "/trainer", student |-> "/student"]

\* C11: once initialized, whenever the path is a public route and the user
\* is authenticated, the guard's effect is due and redirects to the home of
\* the user's role: admin to /admin, trainer to /trainer, student to /student.
C11_PublicPathRedirectsToRoleHome ==
  (/\ isInitialized
   /\ CurrentRoute(segments) \in {"login", "register", "forgot-password"}
   /\ state.isAuthenticated)
  => /\ effectPending
     /\ GuardRedirect(segments, state, isInitialized) = RoleHome[state.user.userType]
     /\ RouterReplace(GuardRedirect(segments, state, isInitialized))
          = <<state.user.userType>>

\* the guard has moved an authenticated trainer from /login to /trainer
C11_Witness ==
  /\ lastGuard = [from |-> <<"login">>, href |-> "/trainer"]
  /\ segments = <<"trainer">>
  /\ state.isAuthenticated
  /\ state.user.userType = "trainer"

\* C12: in the remaining cases the guard issues no redirect: an
\* unauthenticated user on a public path, an authenticated user under the
\* segment of their own role, and an authenticated user on a path that is
\* not public and whose first segment is not a role segment; when the
\* effect has run there, the path is the one it ran on.
C12_NoRedirectOtherwise ==
  (/\ isInitialized
   /\ \/ ~state.isAuthenticated /\ CurrentRoute(segments) \in PUBLIC_ROUTES
      \/ state.isAuthenticated /\ "/" \o CurrentModule(segments) = RoleHome[state.user.userType]
      \/ /\ state.isAuthenticated
         /\ ~InRoleSegments(segments)
         /\ CurrentRoute(segments) \notin PUBLIC_ROUTES)
  => /\ GuardRedirect(segments, state, isInitialized) = NoRedirect
     /\ ~effectPending => lastGuard = [from |-> << >>, href |-> NoRedirect]

\* the guard's effect has run for an authenticated user on a screen outside
\* the role segments and left the path alone
C12_Witness ==
  /\ isInitialized
  /\ state.isAuthenticated
  /\ segments = <<"home", "sessions">>
  /\ ~effectPending
  /\ lastGuard.href = NoRedirect

(***************************************************************************)
(* The guard's effect is run again after every render that changed one of  *)
(* its dependencies: React does not leave a pending effect unrun.          *)
(***************************************************************************)
\* the stores of a first start, of a start after a login and of the starts
\* that find a token with no user record or with a damaged one
FairInit ==
  /\ Init
  /\ store[USER_DATA_KEY] \in {Null, MalformedJson, JSONstringify(MockUser)}
  /\ store[AUTH_TOKEN_KEY] = Null => store[USER_DATA_KEY] = Null

FairSpec == FairInit /\ [][Next]_vars /\ WF_vars(GuardEffect)

\* C13: the guard decides again after every change of path or auth state:
\* once a logout has completed while the path is a protected one, the guard
\* eventually has the router at /login, and once a login has succeeded while
\* the path is the login path, it eventually has it at the user's role home.
C13_GuardReevaluatesAfterEveryChange ==
  /\ (DispatchedBy("LOGOUT", "logout") /\ CurrentRoute(segments) \notin PUBLIC_ROUTES)
       ~> (segments = <<"login">>)
  /\ (DispatchedBy("LOGIN_SUCCESS", "login") /\ segments = <<"login">>)
       ~> (state.isAuthenticated /\ segments = <<state.user.userType>>)

\* a logout has completed on a protected path and the guard has since moved
\* the router from there to /login
C13_Witness ==
  /\ DispatchedBy("LOGOUT", "logout")
  /\ lastGuard = [from |-> <<"trainer", "sessions">>, href |-> "/login"]
  /\ segments = <<"login">>

(***************************************************************************)
(* isInitialized.                                                          *)
(***************************************************************************)
\* C14: isInitialized starts false; it is true exactly when initialize has
\* finished, whatever initialize found and whether or not its storage
\* operations failed; it changes only in the step that finishes initialize,
\* from false to true, and is never false again.
C14_InitializedOnceWhenInitializeFinishes ==
  /\ ~isInitialized
  /\ [](isInitialized <=> init.pc = "done")
  /\ [][isInitialized => isInitialized']_vars
  /\ [][isInitialized' # isInitialized =>
         (init.pc # "done" /\ init'.pc = "done" /\ lastResult'.kind = "init")]_vars

\* initialize has finished with a failed storage operation and has set
\* isInitialized
C14_Witness ==
  /\ isInitialized
  /\ JustInitialized
  /\ ~lastResult.success
  /\ lastResult.found = "token-only"
  /\ DispatchedBy("LOGOUT", "init")

(***************************************************************************)
(* The session store.                                                      *)
(***************************************************************************)
\* the store holds both the token and the user, or neither
PairedStore == (store[AUTH_TOKEN_KEY] = Null) <=> (store[USER_DATA_KEY] = Null)

\* C15: no save and no clear, whether it succeeds or fails as a whole, takes
\* a store that holds both the token and the user or neither of them to a
\* store that holds one without the other; so from the empty store every
\* sequence of saves and clears ends with both or neither.
C15_StoreKeepsTokenAndUserPaired == [][PairedStore => PairedStore']_vars

\* the app started on the empty store and a login has since saved a session
C15_Witness ==
  /\ lastResult.kind = "init"
  /\ lastResult.found = "nothing"
  /\ store[AUTH_TOKEN_KEY] = MockToken
  /\ store[USER_DATA_KEY] = JSONstringify(MockUser)

\* C16: whatever the store held at the start and whatever logins and logouts
\* followed, AuthState.user is null exactly when AuthState.token is null.
C16_UserNullIffTokenNull == (state.user = NullUser) <=> (state.token = Null)

\* the app started on a token with a damaged user record, could not clear
\* it, and a login has since succeeded: user and token are both set
C16_Witness ==
  /\ DispatchedBy("LOGIN_SUCCESS", "login")
  /\ state.user = MockUser
  /\ state.token = MockToken
  /\ store[USER_DATA_KEY] = MalformedJson

\* C17: on every store the app reaches, each operation of the session store
\* returns a value and raises nothing, whether the key-value store works or
\* throws: when it throws, the reads return null, isUserLoggedIn returns
\* false, the write and the remove return false and leave the store as it
\* was; a stored user record that does not parse is returned as null, also
\* to checkAuthStatus.
C17_SessionStoreTurnsFailureIntoNegativeResult ==
  /\ \A outcome \in StorageOutcomes :
       /\ getSavedUser(store, outcome) # ParseError
       /\ getSavedUser(store, outcome) \in User \cup {NullUser}
       /\ getSavedToken(store, outcome) \in {Null, store[AUTH_TOKEN_KEY]}
       /\ isUserLoggedIn(store, outcome) \in BOOLEAN
       /\ safeMultiSet(outcome) \in BOOLEAN
       /\ safeMultiRemove(outcome) \in BOOLEAN
       /\ outcome = "throws" =>
            /\ getSavedUser(store, outcome) = NullUser
            /\ getSavedToken(store, outcome) = Null
            /\ ~isUserLoggedIn(store, outcome)
            /\ ~safeMultiSet(outcome)
            /\ multiSetStore(store, saveAuthDataPairs(MockResponse), outcome) = store
            /\ ~safeMultiRemove(outcome)
            /\ multiRemoveStore(store, clearAuthDataKeys, outcome) = store
  /\ (store[USER_DATA_KEY] # Null /\ JSONparse(store[USER_DATA_KEY]) = ParseError)
       => /\ getSavedUser(store, "ok") = NullUser
          /\ (init.pc \in {"reading", "clearing"} /\ init.user # PendingUser)
               => init.user = NullUser

\* getSavedUser has read a user record that does not parse, with no storage
\* failure, and has returned null to checkAuthStatus
C17_Witness ==
  /\ init.pc = "reading"
  /\ ~init.failed
  /\ store[USER_DATA_KEY] = MalformedJson
  /\ init.user = NullUser

(***************************************************************************)
(* The CPF functions of utils/validators.  A string is a sequence of       *)
(* one-character strings.                                                  *)
(***************************************************************************)
MaxExtraDigits == 1

DigitChars == <<"0", "1", "2", "3", "4", "5", "6", "7", "8", "9">>
Digits == {DigitChars[i] : i \in DOMAIN DigitChars}
MaskChars == {".", "-"}
OtherChars == {" "}

\* \d and \D of the regular expressions
IsDigit(c) == c \in Digits

\* parseInt of a one-digit string
parseInt(c) == CHOOSE n \in 0..9 : DigitChars[n + 1] = c

\* cpf.replace(/\D/g, '')
replaceNonDigits(cpf) == SelectSeq(cpf, IsDigit)

\* /^(\d)\1+$/.test(cleanCpf) never matching
allDigitsTheSame_Never(cleanCpf) == FALSE

\* /^(\d)\1+$/.test(cleanCpf)
allDigitsTheSame(cleanCpf) ==
  /\ Len(cleanCpf) >= 2
  /\ \A i \in 1..Len(cleanCpf) : IsDigit(cleanCpf[i]) /\ cleanCpf[i] = cleanCpf[1]

\* for (let i = 0; i < n; i++) sum += parseInt(cleanCpf.charAt(i)) * (weight - i)
RECURSIVE sumOfProducts(_, _, _)
sumOfProducts(cleanCpf, n, weight) ==
  IF n = 0
    THEN 0
    ELSE sumOfProducts(cleanCpf, n - 1, weight)
           + parseInt(cleanCpf[n]) * (weight - (n - 1))

\* the first check digit with remainder < 1 in place of remainder < 2
firstCheckDigit_RemainderBelowOne(cleanCpf) ==
  LET remainder == sumOfProducts(cleanCpf, 9, 10) % 11 IN
    IF remainder < 1 THEN 0 ELSE 11 - remainder

firstCheckDigit(cleanCpf) ==
  LET remainder == sumOfProducts(cleanCpf, 9, 10) % 11 IN
    IF remainder < 2 THEN 0 ELSE 11 - remainder

secondCheckDigit(cleanCpf) ==
  LET remainder == sumOfProducts(cleanCpf, 10, 11) % 11 IN
    IF remainder < 2 THEN 0 ELSE 11 - remainder

isCpfValid(cpf) ==
  LET cleanCpf == replaceNonDigits(cpf) IN
    IF Len(cleanCpf) # 11 THEN FALSE
    ELSE IF allDigitsTheSame(cleanCpf) THEN FALSE
    ELSE IF parseInt(cleanCpf[10]) # firstCheckDigit(cleanCpf) THEN FALSE
    ELSE parseInt(cleanCpf[11]) = secondCheckDigit(cleanCpf)

\* s.slice(from, to) and s.slice(from), indices counted from 0
slice(s, from, to) == SubSeq(s, from + 1, IF to < Len(s) THEN to ELSE Len(s))
sliceFrom(s, from) == SubSeq(s, from + 1, Len(s))

\* formatCpf with slice(9, 10) for the last group
formatCpf_LastGroupOfOne(cpf) ==
  LET cleanCpf == replaceNonDigits(cpf) IN
    IF Len(cleanCpf) <= 3 THEN cleanCpf
    ELSE IF Len(cleanCpf) <= 6
      THEN slice(cleanCpf, 0, 3) \o <<".">> \o sliceFrom(cleanCpf, 3)
    ELSE IF Len(cleanCpf) <= 9
      THEN slice(cleanCpf, 0, 3) \o <<".">> \o slice(cleanCpf, 3, 6)
             \o <<".">> \o sliceFrom(cleanCpf, 6)
    ELSE slice(cleanCpf, 0, 3) \o <<".">> \o slice(cleanCpf, 3, 6)
           \o <<".">> \o slice(cleanCpf, 6, 9) \o <<"-">> \o slice(cleanCpf, 9, 10)
\* formatCpf with < in place of <= in its length tests, so that a separator
\* is written as soon as the group before it is full
formatCpf_EagerSeparator(cpf) ==
  LET cleanCpf == replaceNonDigits(cpf) IN
    IF Len(cleanCpf) < 3 THEN cleanCpf
    ELSE IF Len(cleanCpf) < 6
      THEN slice(cleanCpf, 0, 3) \o <<".">> \o sliceFrom(cleanCpf, 3)
    ELSE IF Len(cleanCpf) < 9
      THEN slice(cleanCpf, 0, 3) \o <<".">> \o slice(cleanCpf, 3, 6)
             \o <<".">> \o sliceFrom(cleanCpf, 6)
    ELSE slice(cleanCpf, 0, 3) \o <<".">> \o slice(cleanCpf, 3, 6)
           \o <<".">> \o slice(cleanCpf, 6, 9) \o <<"-">> \o slice(cleanCpf, 9, 11)

formatCpf(cpf) ==
  LET cleanCpf == replaceNonDigits(cpf) IN
    IF Len(cleanCpf) <= 3 THEN cleanCpf
    ELSE IF Len(cleanCpf) <= 6
      THEN slice(cleanCpf, 0, 3) \o <<".">> \o sliceFrom(cleanCpf, 3)
    ELSE IF Len(cleanCpf) <= 9
      THEN slice(cleanCpf, 0, 3) \o <<".">> \o slice(cleanCpf, 3, 6)
             \o <<".">> \o sliceFrom(cleanCpf, 6)
    ELSE slice(cleanCpf, 0, 3) \o <<".">> \o slice(cleanCpf, 3, 6)
           \o <<".">> \o slice(cleanCpf, 6, 9) \o <<"-">> \o slice(cleanCpf, 9, 11)

(***************************************************************************)
(* The strings the CPF functions are applied to: for four nine-digit       *)
(* beginnings every pair of check digits, every string of eleven identical *)
(* digits, each of them bare, masked and with a blank in it, and the       *)
(* strings shorter and longer than eleven digits.                          *)
(***************************************************************************)
Chars(ns) == [i \in DOMAIN ns |-> DigitChars[ns[i] + 1]]

\* 123456789 has check digits 09 (first remainder 1), 529982247 has 25,
\* 111111111 has 11, 736625851 has 20 (second remainder 1)
SamplePrefixes ==
  {Chars(<<1, 2, 3, 4, 5, 6, 7, 8, 9>>), Chars(<<5, 2, 9, 9, 8, 2, 2, 4, 7>>),
   Chars(<<1, 1, 1, 1, 1, 1, 1, 1, 1>>), Chars(<<7, 3, 6, 6, 2, 5, 8, 5, 1>>)}

ElevenDigitTexts ==
  {p \o <<a, b>> : p \in SamplePrefixes, a \in Digits, b \in Digits}
    \cup {[i \in 1..11 |-> d] : d \in Digits}

Masked(t) ==
  SubSeq(t, 1, 3) \o <<".">> \o SubSeq(t, 4, 6) \o <<".">> \o SubSeq(t, 7, 9)
    \o <<"-">> \o SubSeq(t, 10, 11)

Blanked(t) == SubSeq(t, 1, 3) \o <<" ">> \o SubSeq(t, 4, 11)

KnownValidCpf == Chars(<<5, 2, 9, 9, 8, 2, 2, 4, 7, 2, 5>>)

OtherLengthTexts ==
  {SubSeq(KnownValidCpf, 1, n) : n \in 0..10}
    \cup {KnownValidCpf \o [i \in 1..k |-> "0"] : k \in 1..MaxExtraDigits}

CpfTexts ==
  ElevenDigitTexts
    \cup {Masked(t) : t \in ElevenDigitTexts}
    \cup {Blanked(t) : t \in ElevenDigitTexts}
    \cup OtherLengthTexts

\* the text with its last digit replaced by d
ReplaceLastDigit(t, d) ==
  LET last == CHOOSE i \in 1..Len(t) :
                IsDigit(t[i]) /\ \A j \in (i + 1)..Len(t) : ~IsDigit(t[j])
  IN [t EXCEPT ![last] = d]

\* the app has not started; a text is about to be handed to the functions
CpfInit ==
  /\ state = initialState
  /\ isInitialized = FALSE
  /\ store = (AUTH_TOKEN_KEY :> Null) @@ (USER_DATA_KEY :> Null)
  /\ init = [pc |-> "check", user |-> PendingUser, token |-> Pending,
             found |-> Found(store), failed |-> FALSE]
  /\ calls = EmptyBag
  /\ segments = << >>
  /\ effectPending = TRUE
  /\ lastAction = [type |-> "NONE", by |-> "none"]
  /\ lastSettled = "NONE"
  /\ lastResult = NoResult
  /\ lastGuard = [from |-> << >>, href |-> "<not-run>"]
  /\ cpfText \in CpfTexts
  /\ cpfOp = "none"
  /\ cpfValid = FALSE
  /\ cpfFormatted = << >>
  /\ form = EmptyForm

authVars == <<state, isInitialized, store, init, calls, segments, effectPending,
              lastAction, lastSettled, lastResult, lastGuard>>

\* isCpfValid(cpfText)
CallIsCpfValid ==
  /\ cpfOp' = "isCpfValid"
  /\ cpfValid' = isCpfValid(cpfText)
  /\ UNCHANGED <<cpfText, cpfFormatted>>
  /\ UNCHANGED <<authVars, form>>

\* formatCpf(cpfText)
CallFormatCpf ==
  /\ cpfOp' = "formatCpf"
  /\ cpfFormatted' = formatCpf(cpfText)
  /\ UNCHANGED <<cpfText, cpfValid>>
  /\ UNCHANGED <<authVars, form>>

\* the last digit of a text isCpfValid accepted is changed to another digit
\* and isCpfValid is applied to the result
ChangeLastDigit(d) ==
  /\ cpfOp = "isCpfValid"
  /\ cpfValid
  /\ ReplaceLastDigit(cpfText, d) # cpfText
  /\ cpfText' = ReplaceLastDigit(cpfText, d)
  /\ cpfOp' = "changeLastDigit"
  /\ cpfValid' = isCpfValid(cpfText')
  /\ UNCHANGED cpfFormatted
  /\ UNCHANGED <<authVars, form>>

CpfNext ==
  \/ CallIsCpfValid
  \/ CallFormatCpf
  \/ \E d \in Digits : ChangeLastDigit(d)

CpfSpec == CpfInit /\ [][CpfNext]_vars

CpfTypeOK ==
  /\ cpfValid \in BOOLEAN
  /\ cpfOp \in {"none", "isCpfValid", "formatCpf", "changeLastDigit"}

(***************************************************************************)
(* The CPF validator and formatter.                                        *)
(***************************************************************************)
IsMaskChar(c) == c \in MaskChars
IsNotMaskChar(c) == c \notin MaskChars
WithoutMask(t) == SelectSeq(t, IsNotMaskChar)
WithoutNonDigits(t) == SelectSeq(t, IsDigit)
IsElevenDigits(t) == Len(t) = 11 /\ \A i \in 1..11 : t[i] \in Digits
ElevenIdenticalDigits(t) == IsElevenDigits(t) /\ \A i \in 1..11 : t[i] = t[1]
DigitsOf(t) == [i \in 1..Len(t) |-> parseInt(t[i])]

\* the check digit of a weighted sum: 0 when the remainder is below 2
ModElevenCheckDigit(total) == IF total % 11 < 2 THEN 0 ELSE 11 - (total % 11)

\* weights 10..2 over the first 9 digits, weights 11..2 over the first 10
HasCorrectCheckDigits(d) ==
  /\ d[10] = ModElevenCheckDigit(d[1] * 10 + d[2] * 9 + d[3] * 8 + d[4] * 7 + d[5] * 6
                                   + d[6] * 5 + d[7] * 4 + d[8] * 3 + d[9] * 2)
  /\ d[11] = ModElevenCheckDigit(d[1] * 11 + d[2] * 10 + d[3] * 9 + d[4] * 8 + d[5] * 7
                                   + d[6] * 6 + d[7] * 5 + d[8] * 4 + d[9] * 3 + d[10] * 2)

\* 11 digits, not all the same, with the two modulo-11 check digits
IsValidCpfDigits(t) ==
  /\ IsElevenDigits(t)
  /\ ~ElevenIdenticalDigits(t)
  /\ HasCorrectCheckDigits(DigitsOf(t))

\* C18 as stated: isCpfValid returns true exactly for the inputs that, once
\* the mask characters '.' and '-' are removed, are 11 digits, not all the
\* same, with the two modulo-11 check digits, and false for every other
\* input.
C18_ValidIffMaskRemovedIsValidCpf ==
  cpfOp = "isCpfValid" => (cpfValid = IsValidCpfDigits(WithoutMask(cpfText)))

\* C18 amended: isCpfValid returns a boolean, true exactly for the inputs
\* that, once every character that is not a digit is removed (the mask
\* characters and any other), are 11 digits, not all the same, with the two
\* modulo-11 check digits (weights 10..2 over the first 9 digits, 11..2
\* over the first 10, a remainder below 2 giving 0), and false otherwise.
C18_ValidIffDigitsAreValidCpf ==
  cpfOp = "isCpfValid" =>
    /\ cpfValid \in BOOLEAN
    /\ cpfValid = IsValidCpfDigits(WithoutNonDigits(cpfText))

\* isCpfValid has accepted 123 45678909, whose first check digit comes from
\* a remainder below 2 and which holds a blank
C18_Witness ==
  /\ cpfOp = "isCpfValid"
  /\ cpfText = Blanked(Chars(<<1, 2, 3, 4, 5, 6, 7, 8, 9, 0, 9>>))
  /\ cpfValid

\* C19: when the last digit of a CPF that isCpfValid accepted is replaced by
\* a different digit, isCpfValid rejects the result; and isCpfValid rejects
\* every string of 11 identical digits, masked or not.
C19_LastDigitChangeAndIdenticalDigitsRejected ==
  /\ cpfOp = "changeLastDigit" => ~cpfValid
  /\ (cpfOp = "isCpfValid" /\ cpfValid) =>
       \A d \in Digits :
         ReplaceLastDigit(cpfText, d) # cpfText => ~isCpfValid(ReplaceLastDigit(cpfText, d))
  /\ (cpfOp = "isCpfValid" /\ ElevenIdenticalDigits(WithoutMask(cpfText))) => ~cpfValid

\* 529.982.247-25 was accepted, its last digit was changed to 6 and the
\* result was rejected
C19_Witness ==
  /\ cpfOp = "changeLastDigit"
  /\ cpfText = Masked(Chars(<<5, 2, 9, 9, 8, 2, 2, 4, 7, 2, 6>>))
  /\ ~cpfValid

\* C20: for every string of exactly 11 digits, formatCpf applied to it and
\* then stripped of the mask characters '.' and '-' gives the 11 digits
\* back, in the same order.
C20_FormatThenStripIsIdentity ==
  (cpfOp = "formatCpf" /\ IsElevenDigits(cpfText))
  => WithoutMask(cpfFormatted) = cpfText

\* formatCpf has masked 52998224725 as 529.982.247-25
C20_Witness ==
  /\ cpfOp = "formatCpf"
  /\ cpfText = KnownValidCpf
  /\ cpfFormatted = <<"5", "2", "9", ".", "9", "8", "2", ".", "2", "4", "7", "-", "2", "5">>

\* the separator the mask puts before the i-th digit, if any
SeparatorBefore(i) ==
  IF i = 4 \/ i = 7 THEN <<".">> ELSE IF i = 10 THEN <<"-">> ELSE << >>

\* the first n digits of t, each preceded by its separator
RECURSIVE ProgressiveMask(_, _)
ProgressiveMask(t, n) ==
  IF n = 0 THEN << >>
  ELSE ProgressiveMask(t, n - 1) \o SeparatorBefore(n) \o <<t[n]>>

IsDigitString(t) == \A i \in 1..Len(t) : t[i] \in Digits

\* C21: for a digit string of length 0 to 11, formatCpf returns its digits in
\* groups 3-3-3-2 with '.' before the 4th digit, '.' before the 7th and '-'
\* before the 10th, a separator being written only when its digit is there,
\* so the output never ends in a mask character.
C21_FormatMasksProgressively ==
  (cpfOp = "formatCpf" /\ IsDigitString(cpfText) /\ Len(cpfText) <= 11)
  => /\ cpfFormatted = ProgressiveMask(cpfText, Len(cpfText))
     /\ cpfFormatted # << >> => cpfFormatted[Len(cpfFormatted)] \notin MaskChars
     /\ Len(cpfText) = 0 => cpfFormatted = << >>

\* formatCpf has masked the six digits 529982 as 529.982, with no separator
\* after them
C21_Witness ==
  /\ cpfOp = "formatCpf"
  /\ cpfText = <<"5", "2", "9", "9", "8", "2">>
  /\ cpfFormatted = <<"5", "2", "9", ".", "9", "8", "2">>

(***************************************************************************)
(* The login screen.  It is on show when the router is at /login and the   *)
(* guard has let it stand.  What the user types into the CPF field comes   *)
(* to handleChangeText as the whole new text of the field.                 *)
(***************************************************************************)
\* the string of a sequence of characters
RECURSIVE Text(_)
Text(chars) ==
  IF chars = << >> THEN "" ELSE Text(SubSeq(chars, 1, Len(chars) - 1)) \o chars[Len(chars)]

\* the CPFs the user types, digit by digit: the one the mock accepts and
\* the one with the same nine digits and their check digits
TypedCpfs ==
  {Chars(<<1, 2, 3, 4, 5, 6, 7, 8, 9, 1, 0>>), Chars(<<1, 2, 3, 4, 5, 6, 7, 8, 9, 0, 9>>)}
TypedPrefixes == {formatCpf(SubSeq(t, 1, n)) : t \in TypedCpfs, n \in 0..11}

\* the passwords the user types: the accepted one, one of five characters
\* and another of seven
Passwords ==
  {<<"p", "a", "s", "s", "w", "o", "r", "d", "1", "2", "3">>,
   <<"1", "2", "3", "4", "5">>,
   <<"s", "e", "n", "h", "a", "1", "2">>}

\* the texts the field can deliver next: a key appended or the last
\* character deleted, within maxLength={14}
Keys == Digits \cup MaskChars \cup OtherChars
NextTexts(value) ==
  {t \in {value \o <<k>> : k \in Keys} \cup {SubSeq(value, 1, Len(value) - 1)} :
     Len(t) <= 14 /\ t # value}

\* AuthGuard renders its children, and not the spinner, while its isLoading
\* is false
LoginScreenShown ==
  /\ ~guardIsLoading(state, isInitialized)
  /\ ~effectPending
  /\ segments = <<"login">>
  /\ ~state.isAuthenticated

\* const isFormValid = isCpfValid && password.length >= 6
isFormValid(f) == f.isCpfValid /\ Len(f.password) >= 6

\* CpfInput.handleChangeText(text), with onChangeText = setCpf and
\* onValidChange = setIsCpfValid
handleChangeText(text) ==
  /\ LoginScreenShown
  /\ text \in NextTexts(form.cpf)
  /\ LET numericValue == replaceNonDigits(text)
         formattedCpf == formatCpf(numericValue)
     IN /\ formattedCpf \in TypedPrefixes
        /\ form' = [form EXCEPT
                      !.cpf = formattedCpf,
                      !.isCpfValid = IF Len(formattedCpf) = 14
                                       THEN isCpfValid(formattedCpf)
                                       ELSE FALSE]
  /\ UNCHANGED <<authVars, cpfVars>>

\* CpfInput.handleBlur
handleBlur ==
  /\ LoginScreenShown
  /\ form' = [form EXCEPT
                !.isTouched = TRUE,
                !.isCpfValid = IF form.cpf # << >> THEN isCpfValid(form.cpf) ELSE @]
  /\ UNCHANGED <<authVars, cpfVars>>

\* onChangeText={setPassword}
setPassword(p) ==
  /\ LoginScreenShown
  /\ p # form.password
  /\ form' = [form EXCEPT !.password = p]
  /\ UNCHANGED <<authVars, cpfVars>>

\* the button is pressed; it is disabled while !isFormValid || isLoading.
\* handleLogin: if (!isFormValid) return; await login({ cpf, password }).
\* login dispatches LOGIN_REQUEST, AuthGuard's isLoading turns true and the
\* spinner replaces the screen, whose state is gone when it is shown again.
handleLogin ==
  /\ LoginScreenShown
  /\ isFormValid(form)
  /\ BagCardinality(calls) < MaxInFlight
  /\ calls' = calls (+) SetToBag({[kind |-> "login", pc |-> "delay",
                                   credentials |-> [cpf |-> Text(form.cpf),
                                                    password |-> Text(form.password)],
                                   success |-> FALSE]})
  /\ isInitialized' = isInitialized
  /\ Dispatch([type |-> "LOGIN_REQUEST"], "login")
  /\ form' = EmptyForm
  /\ UNCHANGED <<store, init, segments, lastResult, lastGuard, cpfVars>>

\* The start of the app on the empty store and the login screen.  No call
\* that handleLogin makes carries the credentials the mock accepts
\* (LoginScreenNeverSubmitsAcceptedCredentials), so of the steps of a login
\* call only LoginFailure has a call to act on.
LoginScreenInit == Init /\ EmptyStore

LoginScreenNext ==
  \/ InitCheck
  \/ GuardEffect
  \/ \E text \in UNION {NextTexts(p) : p \in TypedPrefixes} : handleChangeText(text)
  \/ handleBlur
  \/ \E p \in Passwords \cup {<< >>} : setPassword(p)
  \/ handleLogin
  \/ \E call \in BagToSet(calls) : LoginFailure(call)

LoginScreenSpec == LoginScreenInit /\ [][LoginScreenNext]_vars

LoginScreenTypeOK ==
  /\ form.cpf \in TypedPrefixes
  /\ form.password \in Passwords \cup {<< >>}
  /\ form.isCpfValid \in BOOLEAN

\* no login call made from the screen carries the accepted credentials
LoginScreenNeverSubmitsAcceptedCredentials ==
  \A call \in BagToSet(calls) : ~credentialsAccepted(call.credentials)

\* C22: the identifier the mock credential check accepts passes isCpfValid,
\* so that whenever the login form holds it with the accepted password the
\* submit guard is open and login() can be called with them.
C22_AcceptedCredentialsPassSubmitGuard ==
  (/\ LoginScreenShown
   /\ Text(form.cpf) = MockCpf
   /\ Text(form.password) = MockPassword)
  => /\ form.isCpfValid
     /\ isFormValid(form)

(***************************************************************************)
(* The app on a key-value store none of whose operations fails.  A failed  *)
(* operation shows in the state right after it: in the locals of           *)
(* checkAuthStatus, in the boolean a call got back, or in how the          *)
(* operation ended.                                                        *)
(***************************************************************************)
NoStorageFailure ==
  /\ ~init.failed
  /\ \A call \in BagToSet(calls) : call.pc \in {"saved", "cleared"} => call.success
  /\ (lastResult.kind \in {"init", "logout"}) => lastResult.success
  /\ (lastResult.kind = "login" /\ lastResult.outcome = "resolved") => lastResult.success

ReliableNext ==
  \/ InitCheck /\ NoStorageFailure'
  \/ InitReadUser /\ NoStorageFailure'
  \/ InitReadToken /\ NoStorageFailure'
  \/ InitJoin
  \/ InitClear /\ NoStorageFailure'
  \/ \E credentials \in LoginCredentials : LoginCall(credentials)
  \/ \E call \in BagToSet(calls) : LoginSave(call) /\ NoStorageFailure'
  \/ \E call \in BagToSet(calls) : LoginSuccess(call)
  \/ \E call \in BagToSet(calls) : LoginFailure(call)
  \/ LogoutCall
  \/ \E call \in BagToSet(calls) : LogoutClear(call) /\ NoStorageFailure'
  \/ \E call \in BagToSet(calls) : LogoutDone(call)
  \/ \E p \in Paths : Navigate(p)
  \/ GuardEffect

ReliableSpec == Init /\ [][ReliableNext]_vars

\* in ReliableSpec no storage operation has failed, in any state
ReliableTypeOK == TypeOK /\ NoStorageFailure

\* nothing is in flight: initialize has finished and no login or logout
\* call is running
AtRest == isInitialized /\ init.pc = "done" /\ calls = EmptyBag

\* C23: after initialization, whenever no login or logout call is in flight
\* and no storage operation has failed, isAuthenticated is true exactly when
\* the store holds a complete session (a token and a user record).
C23_StateAndStoreAgreeAtRest ==
  AtRest => (state.isAuthenticated <=> Found(store) = "session")

(***************************************************************************)
(* Logins overtaken by a logout.  With no login issued while a logout is   *)
(* in flight, every login that is in flight when a logout completes was in *)
(* flight when that logout was called.  No storage operation fails.        *)
(***************************************************************************)
NoLogoutInFlight == \A call \in BagToSet(calls) : call.kind # "logout"

OvertakenNext ==
  \/ InitCheck /\ NoStorageFailure'
  \/ InitReadUser /\ NoStorageFailure'
  \/ InitReadToken /\ NoStorageFailure'
  \/ InitJoin
  \/ InitClear /\ NoStorageFailure'
  \/ \E credentials \in LoginCredentials : NoLogoutInFlight /\ LoginCall(credentials)
  \/ \E call \in BagToSet(calls) : LoginSave(call) /\ NoStorageFailure'
  \/ \E call \in BagToSet(calls) : LoginSuccess(call)
  \/ \E call \in BagToSet(calls) : LoginFailure(call)
  \/ LogoutCall
  \/ \E call \in BagToSet(calls) : LogoutClear(call) /\ NoStorageFailure'
  \/ \E call \in BagToSet(calls) : LogoutDone(call)
  \/ \E p \in Paths : Navigate(p)
  \/ GuardEffect

OvertakenSpec == Init /\ [][OvertakenNext]_vars

\* a logout call has completed and no login has been issued or has
\* completed since
LogoutJustCompleted == DispatchedBy("LOGOUT", "logout") /\ lastResult.kind = "logout"

\* C24: once a logout call has completed, and until a login is issued after
\* it, no step makes AuthState authenticated and no step leaves a session
\* in the store: the logins in flight, all of them in flight when the logout
\* was called, neither re-authenticate the user nor persist a session again.
C24_OvertakenLoginHasNoEffect ==
  [][LogoutJustCompleted =>
       (~state'.isAuthenticated /\ Found(store') # "session")]_vars

(***************************************************************************)
(* Overlapping login calls.                                                *)
(***************************************************************************)
\* the login calls among the calls in flight
Logins(bag) == [c \in {d \in BagToSet(bag) : d.kind = "login"} |-> bag[c]]

\* a login is issued while another login is in flight
SecondLoginIssued ==
  /\ Logins(calls) # EmptyBag
  /\ BagCardinality(Logins(calls')) = BagCardinality(Logins(calls)) + 1

\* one of two overlapping logins has completed (it dropped isLoading, which
\* the other had raised no later than its own request) and the other has not
OverlappedLoginPending ==
  /\ BagCardinality(Logins(calls)) = 1
  /\ ~state.isLoading
  /\ lastAction.by = "login"

\* the login in flight completes
LastLoginCompletes == Logins(calls) # EmptyBag /\ Logins(calls') = EmptyBag

\* C25: a login issued while another is in flight leaves the earlier call in
\* flight as it was and raises isLoading; every login waiting for the
\* credential check can complete whatever else is in flight; and when the
\* last of two overlapping logins completes, AuthState is the one its own
\* outcome produces, success or failure, whatever the other call's outcome.
C25_LastCompletedLoginWins ==
  /\ [](\A call \in BagToSet(calls) :
          (call.kind = "login" /\ call.pc = "delay" /\ ~effectPending)
          => ENABLED (LoginSave(call) \/ LoginFailure(call)))
  /\ [][SecondLoginIssued => (state'.isLoading /\ calls \sqsubseteq calls')]_vars
  /\ [][(OverlappedLoginPending /\ LastLoginCompletes) =>
          LET call == CHOOSE c \in BagToSet(Logins(calls)) : TRUE
          IN  IF credentialsAccepted(call.credentials)
                THEN state' = [user |-> MockUser, token |-> MockToken,
                               isLoading |-> FALSE, error |-> Null,
                               isAuthenticated |-> TRUE]
                ELSE /\ ~state'.isAuthenticated
                     /\ ~state'.isLoading
                     /\ state'.error = InvalidCredentialsMessage
                     /\ state'.user = state.user
                     /\ state'.token = state.token]_vars

\* the accepted one of two overlapping logins has completed first and the
\* rejected one is about to complete
C25_Witness ==
  /\ OverlappedLoginPending
  /\ state.isAuthenticated
  /\ \E call \in BagToSet(calls) :
       call.kind = "login" /\ ~credentialsAccepted(call.credentials)

(***************************************************************************)
(* A rejected login and the store.                                         *)
(***************************************************************************)
\* every call in flight is a login with credentials the check rejects
OnlyRejectedLogins(bag) ==
  \A call \in BagToSet(bag) :
    call.kind = "login" /\ ~credentialsAccepted(call.credentials)

\* a login call completes by rejecting
LoginRejects ==
  /\ BagCardinality(Logins(calls')) < BagCardinality(Logins(calls))
  /\ lastResult'.kind = "login"
  /\ lastResult'.outcome = "rejected"

\* C26: the step in which a login is rejected leaves the store as it was,
\* and so does every step from the issue of a login to its rejection while
\* nothing but rejected logins is in flight: the token and the user record
\* persisted before the call are those persisted after it.
C26_RejectedLoginWritesNothing ==
  /\ [][LoginRejects => store' = store]_vars
  /\ [][(init.pc = "done" /\ OnlyRejectedLogins(calls) /\ OnlyRejectedLogins(calls'))
          => store' = store]_vars

\* a login has just been rejected over a persisted session
C26_Witness ==
  /\ lastResult.kind = "login"
  /\ lastResult.outcome = "rejected"
  /\ calls = EmptyBag
  /\ Found(store) = "session"

(***************************************************************************)
(* The guard before initialization.                                        *)
(***************************************************************************)
\* what the index screen renders: a spinner until initialization, then a
\* Redirect to /login or to the home of the user's role
IndexRedirect(s, initialized) ==
  IF ~initialized THEN NoRedirect
  ELSE IF ~s.isAuthenticated THEN "/login"
  ELSE IF TruthyUser(s.user) THEN "/" \o s.user.userType
  ELSE "/login"

\* the guard's effect has replaced the route at least once
HasRedirected == lastGuard.href \notin {"<not-run>", NoRedirect}

\* C27: while isInitialized is false the guard's effect asks for no redirect
\* on the current path and state, nor does the index screen, a run of the
\* effect leaves the path as it is, and no redirect has been issued yet; a redirect has been issued only
\* when checkAuthStatus has finished.
C27_NoRedirectBeforeInitialized ==
  /\ [](~isInitialized =>
          /\ GuardRedirect(segments, state, isInitialized) = NoRedirect
          /\ IndexRedirect(state, isInitialized) = NoRedirect
          /\ ~HasRedirected)
  /\ [](HasRedirected => (isInitialized /\ init.pc = "done"))
  /\ [][(~isInitialized /\ effectPending) => segments' = segments]_vars

\* the effect has run on a protected path before initialization and left
\* the unauthenticated user there
C27_Witness ==
  /\ ~isInitialized
  /\ ~state.isAuthenticated
  /\ segments = <<"trainer">>
  /\ ~effectPending
  /\ lastGuard.href = NoRedirect

(***************************************************************************)
(* The error message.                                                      *)
(***************************************************************************)
\* C28: error is null whenever the reducer action applied last is a
\* LOGIN_REQUEST, a LOGIN_SUCCESS or a LOGOUT, and before any action; it is
\* non-null only when the action applied last is a LOGIN_FAILURE, which
\* attaches its message; and a step that applies an action to a state with
\* an error either clears the error or is another LOGIN_FAILURE.
C28_ErrorOnlyAfterFailure ==
  /\ [](lastAction.type \in {"NONE", "LOGIN_REQUEST", "LOGIN_SUCCESS", "LOGOUT"}
          => state.error = Null)
  /\ [](state.error # Null <=> lastAction.type = "LOGIN_FAILURE")
  /\ [][(state.error # Null /\ lastAction' # lastAction)
          => (state'.error = Null \/ lastAction'.type = "LOGIN_FAILURE")]_vars

\* a login was rejected and the request of the next login has cleared the
\* error the rejection attached
C28_Witness ==
  /\ lastResult.kind = "login"
  /\ lastResult.outcome = "rejected"
  /\ BagCardinality(calls) = 1
  /\ lastAction = [type |-> "LOGIN_REQUEST", by |-> "login"]
  /\ state.error = Null

(***************************************************************************)
(* The guard does not loop.                                                *)
(***************************************************************************)
\* the guard's effect is running and replaces the route
GuardRedirects == effectPending /\ segments' # segments

\* C29: in every initialized auth state and on every path the router can be
\* at, the path the guard redirects to, if any, is /login for an
\* unauthenticated user and
\* the home of the user's role for an authenticated one, and on that path
\* the guard, for the same auth state, asks for no redirect; so the run of
\* the effect that follows a redirect leaves the path alone.
C29_RedirectTargetIsStable ==
  /\ [](isInitialized =>
          LET href == GuardRedirect(segments, state, isInitialized)
          IN  href # NoRedirect =>
                /\ href = IF state.isAuthenticated
                            THEN RoleHome[state.user.userType]
                            ELSE "/login"
                /\ GuardRedirect(RouterReplace(href), state, isInitialized) = NoRedirect)
  /\ [][GuardRedirects =>
          GuardRedirect(segments', state', isInitialized') = NoRedirect]_vars

\* the guard has just sent an authenticated trainer from a public screen
\* to the trainer home, where it asks for nothing more
C29_Witness ==
  /\ effectPending
  /\ lastGuard = [from |-> <<"register">>, href |-> "/trainer"]
  /\ segments = <<"trainer">>
  /\ state.isAuthenticated
  /\ GuardRedirect(segments, state, isInitialized) = NoRedirect

(***************************************************************************)
(* Termination.  Every await of checkAuthStatus, login and logout is on a  *)
(* storage operation or on the credential check's delay; when these        *)
(* complete, the continuation runs.  Calls with the same arguments are not *)
(* issued on top of each other here, so that a call in flight is told      *)
(* from the next one like it, and the path changes by the guard only.      *)
(***************************************************************************)
\* what a call in flight can be: a login waiting for the credential check
\* or back from saveAuthData, a logout waiting for or back from clearAuthData
CallRecords ==
  [kind : {"login"}, pc : {"delay"},
   credentials : LoginCredentials, success : {FALSE}]
  \cup
  [kind : {"login"}, pc : {"saved"},
   credentials : {cr \in LoginCredentials : credentialsAccepted(cr)}, success : BOOLEAN]
  \cup
  [kind : {"logout"}, pc : {"clearing"},
   credentials : {NoCredentials}, success : {FALSE}]
  \cup
  [kind : {"logout"}, pc : {"cleared"},
   credentials : {NoCredentials}, success : BOOLEAN]

InFlight(c) == c \in BagToSet(calls)

\* no login with these credentials is in flight
NoSuchLoginInFlight(credentials) ==
  \A call \in BagToSet(calls) :
    call.kind = "login" => call.credentials # credentials

\* the continuation of checkAuthStatus after one of its awaits
InitContinues == InitCheck \/ InitReadUser \/ InitReadToken \/ InitJoin \/ InitClear

\* the continuation of call c after its await
CallContinues(c) ==
  /\ InFlight(c)
  /\ \/ LoginSave(c)
     \/ LoginSuccess(c)
     \/ LoginFailure(c)
     \/ LogoutClear(c)
     \/ LogoutDone(c)

TerminationNext ==
  \/ InitCheck
  \/ InitReadUser
  \/ InitReadToken
  \/ InitJoin
  \/ InitClear
  \/ \E credentials \in LoginCredentials :
       NoSuchLoginInFlight(credentials) /\ LoginCall(credentials)
  \/ \E call \in BagToSet(calls) : LoginSave(call)
  \/ \E call \in BagToSet(calls) : LoginSuccess(call)
  \/ \E call \in BagToSet(calls) : LoginFailure(call)
  \/ NoLogoutInFlight /\ LogoutCall
  \/ \E call \in BagToSet(calls) : LogoutClear(call)
  \/ \E call \in BagToSet(calls) : LogoutDone(call)
  \/ GuardEffect

TerminationSpec ==
  /\ FairInit
  /\ [][TerminationNext]_vars
  /\ WF_vars(GuardEffect)
  /\ SF_vars(InitContinues)
  /\ \A c \in CallRecords : SF_vars(CallContinues(c))

\* C30: when every await completes, checkAuthStatus finishes, every login
\* and logout call in flight eventually is no longer in flight, and the
\* guard's isLoading, whenever true, eventually is false; and whenever
\* checkAuthStatus has finished and no call is in flight, AuthState.isLoading
\* is false and isInitialized is true.
C30_EveryCallTerminates ==
  /\ <>(init.pc = "done" /\ isInitialized)
  /\ \A c \in CallRecords : InFlight(c) ~> ~InFlight(c)
  /\ guardIsLoading(state, isInitialized) ~> ~guardIsLoading(state, isInitialized)
  /\ []((init.pc = "done" /\ calls = EmptyBag)
          => (~state.isLoading /\ isInitialized))

\* checkAuthStatus has finished, a login has been through both of its
\* awaits and resolved, nothing is in flight and the loading indicator is off
C30_Witness ==
  /\ init.pc = "done"
  /\ calls = EmptyBag
  /\ lastResult.kind = "login"
  /\ lastResult.outcome = "resolved"
  /\ state.isAuthenticated
  /\ ~guardIsLoading(state, isInitialized)

====
